---- MODULE Spec2Model ----
(***************************************************************************)
(* Model of fprime_fpp_install.py: the FPP tool-suite installer.           *)
(*                                                                         *)
(* Strings the code inspects character by character (version tokens, the   *)
(* text of an HTTP error) are sequences of one-character strings.  Path    *)
(* components are sequences of name pieces, so that                        *)
(* str(path).replace(".tar.gz", "") is the removal of the ".tar.gz" piece. *)
(* An optional value (None or a value) is << >> or <<value>>.              *)
(***************************************************************************)
EXTENDS Integers, Sequences, FiniteSets, TLC

VARIABLES
    pc,               \* position of the single thread of control
    environ,          \* os.environ: FPP_TOOLS_VERSION and FPP_DOWNLOAD_CACHE
    path_tools,       \* executables shutil.which resolves on PATH
    ppid,             \* os.getppid()
    package_default,  \* default version the docstring says ships with the package
    version_json,     \* parsed content of TEMPORARY_VERSION_FILE (a dict)
    fs,               \* filesystem: [files, dirs], two sets of paths
    cwd,              \* current directory of the process
    atexit_handlers,  \* paths registered through clean_at_exit, in order
    tools_version,    \* __FPP_TOOLS_VERSION__ (optional)
    package_version,  \* PACKAGE_VERSION (optional)
    cache_directory,  \* install_fpp: cache_directory (optional)
    http_error,       \* outcome of the last urlretrieve (optional)
    extracted_dir,    \* directory archive.extractall(".") produced (optional)
    install_result,   \* value install_fpp returned (optional)
    working_dir,      \* iterate_fpp_tools: working_dir, the directory listed
    listing,          \* entries the lazy loader yielded (optional)
    tool_index,       \* install_fpp_via_git: index into tools
    step_index,       \* install_fpp_via_git: index into steps
    returncodes,      \* return codes of the steps run so far
    trace,            \* functions entered and external calls made, in order
    stdout,           \* lines printed, in order
    exit_status       \* process exit status (optional)

vars == <<pc, environ, path_tools, ppid, package_default, version_json, fs,
          cwd, atexit_handlers, tools_version, package_version,
          cache_directory, http_error, extracted_dir, install_result,
          working_dir, listing, tool_index, step_index, returncodes, trace,
          stdout, exit_status>>

None == << >>
Some(x) == <<x>>
Get(opt) == opt[1]

(***************************************************************************)
(* Bounds of the model.                                                    *)
(***************************************************************************)
\* longest run of decimal digits in a generated version component
MaxDigits == 2
\* number of distinct hash texts generated per hash length
MaxSeed == 2

(***************************************************************************)
(* Characters and regular-expression pieces of get_package_version.        *)
(***************************************************************************)
Digit == {"0", "1", "2", "3", "4", "5", "6", "7", "8", "9"}
HexChar == Digit \cup {"a", "b", "c", "d", "e", "f", "A", "B", "C", "D", "E", "F"}

\* {8,40}: the shortest and the longest hash the pattern takes
MinHashLen == 8
MaxHashLen == 40
\* [:8], the short hash
ShortHashLen == 8

Min(a, b) == IF a < b THEN a ELSE b

\* s[i..j] as a sequence; Python's slice s[:n] is Slice(s, 1, Min(n, Len(s)))
Slice(s, i, j) == [k \in 1..(j - i + 1) |-> s[i + k - 1]]
Prefix(s, n) == Slice(s, 1, Min(n, Len(s)))

\* greedy run of characters of class cls from position i: the first position
\* after the run (i itself when the run is empty)
RECURSIVE RunEnd(_, _, _)
RunEnd(s, i, cls) ==
    IF i <= Len(s) /\ s[i] \in cls THEN RunEnd(s, i + 1, cls) ELSE i

CharAt(s, i, c) == i <= Len(s) /\ s[i] = c

\* \d+ at position i: position after it, or 0 when it does not match
MatchDigits(s, i) ==
    LET e == RunEnd(s, i, Digit) IN IF e > i THEN e ELSE 0

\* (v\d+\.\d+\.\d+) at position 1: position after it, or 0
MatchVersion(s) ==
    IF ~CharAt(s, 1, "v") THEN 0
    ELSE LET a == MatchDigits(s, 2) IN
         IF a = 0 \/ ~CharAt(s, a, ".") THEN 0
         ELSE LET b == MatchDigits(s, a + 1) IN
              IF b = 0 \/ ~CharAt(s, b, ".") THEN 0
              ELSE MatchDigits(s, b + 1)

\* ([a-fA-F0-9]{8,40}+) at position i, possessive: position after it, or 0
MatchHash(s, i) ==
    LET e == Min(RunEnd(s, i, HexChar), i + MaxHashLen) IN
    IF e - i >= MinHashLen THEN e ELSE 0

\* re.match(r"^(v\d+\.\d+\.\d+)$", s): $ is the end, or just before a final newline
ExactVersionMatch(s) ==
    LET e == MatchVersion(s) IN
    /\ e # 0
    /\ \/ e = Len(s) + 1
       \/ e = Len(s) /\ s[e] = "\n"

\* full_version_matcher.match(s): the groups, or << >> when it does not match
FullVersionMatch(s) ==
    LET e1 == MatchVersion(s) IN
    IF e1 = 0 \/ ~CharAt(s, e1, "-") THEN None
    ELSE LET e2 == MatchDigits(s, e1 + 1) IN
         IF e2 = 0 \/ ~CharAt(s, e2, "-") \/ ~CharAt(s, e2 + 1, "g") THEN None
         ELSE LET e3 == MatchHash(s, e2 + 2) IN
              IF e3 = 0 THEN None
              ELSE Some([version |-> Slice(s, 1, e1 - 1),
                         commits |-> Slice(s, e1 + 1, e2 - 1),
                         hash |-> Slice(s, e2 + 2, e3 - 1)])

DevVersion(version, commits, hash) ==
    version \o <<".", "d", "e", "v">> \o commits \o <<"+", "g">> \o hash

BaseVersion == <<"v", "0", ".", "0", ".", "0">>
BaseCommits == <<"9", "9", "9">>
BaseHash == <<"0", "0", "0", "0", "0", "0", "0", "0">>

\* get_package_version with the hash of a composite token left whole
get_package_version_whole_hash(tv) ==
    IF ExactVersionMatch(tv) THEN tv
    ELSE IF MatchHash(tv, 1) # 0
         THEN DevVersion(BaseVersion, BaseCommits, Prefix(tv, ShortHashLen))
    ELSE IF FullVersionMatch(tv) # None
         THEN LET m == Get(FullVersionMatch(tv)) IN
              DevVersion(m.version, m.commits, m.hash)
    ELSE DevVersion(BaseVersion, BaseCommits, BaseHash)

get_package_version(tv) ==
    IF ExactVersionMatch(tv) THEN tv
    ELSE IF MatchHash(tv, 1) # 0
         THEN DevVersion(BaseVersion, BaseCommits, Prefix(tv, ShortHashLen))
    ELSE IF FullVersionMatch(tv) # None
         THEN LET m == Get(FullVersionMatch(tv)) IN
              DevVersion(m.version, m.commits, Prefix(m.hash, ShortHashLen))
    ELSE DevVersion(BaseVersion, BaseCommits, BaseHash)


(***************************************************************************)
(* Paths and the filesystem.                                               *)
(***************************************************************************)
Name(s) == <<s>>
Join(dir, component) == Append(dir, component)

\* tempfile.gettempdir()
TempDir == <<Name("tmp")>>
TEMPORARY_VERSION_FILE == Join(TempDir, Name("fprime_versions.json"))
FPP_TOOLS_VARIABLE == "FPP_TOOLS_VERSION"
WORKING_DIR == Join(TempDir, Name("__FPP_WORKING_DIR__"))
FPP_ARTIFACT_PREFIX == "native-fpp"
FPP_COMPRESSION_EXT == ".tar.gz"
GITHUB_URL == "https://github.com/fprime-community/fpp"

\* the directory the process is started in, a directory FPP_DOWNLOAD_CACHE
\* may name, and the directory tempfile.TemporaryDirectory() creates
OriginDir == <<Name("origin")>>
ExplicitCacheDir == <<Name("cache")>>
BuildDir == Join(TempDir, Name("tmpbuild"))

\* platform.system() and platform.machine()
PlatformSystem == "Linux"
PlatformMachine == "x86_64"

get_artifact_string(version) ==
    <<FPP_ARTIFACT_PREFIX, "-", PlatformSystem, "-", PlatformMachine,
      FPP_COMPRESSION_EXT>>

\* str.replace(old, "") on one component, and on every component of a path
StrRemove(component, old) == SelectSeq(component, LAMBDA piece : piece # old)
PathRemove(path, old) == [i \in DOMAIN path |-> StrRemove(path[i], old)]

\* Path(url).name
PathName(path) == path[Len(path)]

Exists(f, p) == p \in f.files \cup f.dirs
IsUnder(q, p) == Len(q) >= Len(p) /\ Prefix(q, Len(p)) = p
\* os.scandir(p) / p.iterdir()
Scandir(f, p) == {q \in f.files \cup f.dirs : Len(q) = Len(p) + 1 /\ IsUnder(q, p)}
Mkdir(f, p) == [f EXCEPT !.dirs = @ \cup {p}]
WriteFile(f, p) == [f EXCEPT !.files = @ \cup {p}]

\* shutil.rmtree(path, ignore_errors=True): removes a directory tree; on a
\* regular file or a missing path the error is swallowed and nothing changes
rmtree(f, path) ==
    IF path \in f.dirs
    THEN [files |-> {q \in f.files : ~IsUnder(q, path)},
          dirs |-> {q \in f.dirs : ~IsUnder(q, path)}]
    ELSE f

\* the release archive holds one top directory, named as the artifact
\* without its compression suffix, with the tools in it
ArchiveTop == StrRemove(get_artifact_string(None), FPP_COMPRESSION_EXT)
ToolFile == Name("fpp-check")

\* archive.extractall(dest)
Extractall(f, dest) ==
    [files |-> f.files \cup {Join(Join(dest, ArchiveTop), ToolFile)},
     dirs |-> f.dirs \cup {Join(dest, ArchiveTop)}]


(***************************************************************************)
(* Inputs: version tokens.                                                 *)
(***************************************************************************)
DigitAlphabet == {"0", "7"}
\* decimal numbers of 1..MaxDigits digits, and of one digit
NumStrs == UNION {[1..n -> DigitAlphabet] : n \in 1..MaxDigits}
ShortNums == [1..1 -> DigitAlphabet]

HexCycle == <<"a", "1", "F", "0", "c", "9", "B", "e", "d", "3">>
HashText(len, seed) ==
    [i \in 1..len |-> HexCycle[((i + seed) % Len(HexCycle)) + 1]]
HashLens == {MinHashLen, MinHashLen + 1, MaxHashLen}
Hashes == {HashText(len, seed) : len \in HashLens, seed \in 1..MaxSeed}

Tag(x, y, z) == <<"v">> \o x \o <<".">> \o y \o <<".">> \o z
\* the token vX.Y.Z-N-gHASH
Composite(p) == Tag(p.x, p.y, p.z) \o <<"-">> \o p.n \o <<"-", "g">> \o p.hash

CompositeParts ==
    [x : NumStrs, y : ShortNums, z : ShortNums, n : NumStrs, hash : Hashes]
ExactTags == {Tag(x, y, z) : x \in NumStrs, y \in ShortNums, z \in ShortNums}
\* tokens no pattern of get_package_version takes whole: a branch name, a
\* hash that is too short, a composite with a short hash, a tag with a
\* trailing newline, a composite followed by more text
OtherTokens ==
    { <<"m", "a", "i", "n">>,
      HashText(MinHashLen - 1, 1),
      HashText(MaxHashLen + 1, 1),
      Tag(<<"1">>, <<"2">>, <<"3">>) \o <<"\n">>,
      Tag(<<"1">>, <<"2">>, <<"3">>) \o <<"-", "4", "-", "g">> \o HashText(MinHashLen - 1, 1),
      Tag(<<"1">>, <<"2">>, <<"3">>) \o <<"-", "4", "-", "g">> \o HashText(MinHashLen, 1) \o <<"-", "x">> }
Tokens ==
    {Composite(p) : p \in CompositeParts} \cup ExactTags \cup Hashes \cup OtherTokens

\* the few tokens the whole-program specification draws from
EnvVersions == {Tag(<<"2">>, <<"0">>, <<"0">>), HashText(MinHashLen, 1)}
FileVersions ==
    {Tag(<<"3">>, <<"1">>, <<"0">>),
     Tag(<<"3">>, <<"1">>, <<"0">>) \o <<"-", "1", "2", "-", "g">> \o HashText(MinHashLen + 1, 1)}
PackageDefaults == {Tag(<<"1">>, <<"0">>, <<"0">>)}
\* os.getppid() of this run, and the pids a version file may record
ParentPIDs == {100}
PIDs == ParentPIDs \cup {200}

\* the dicts json.load may return from the version file
VersionDicts ==
    {[k \in {} |-> None]}
    \cup {[FPP_TOOLS_VERSION |-> v] : v \in FileVersions}
    \cup {[setup_ppid |-> p] : p \in PIDs}
    \cup {[FPP_TOOLS_VERSION |-> v, setup_ppid |-> p] : v \in FileVersions, p \in PIDs}


(***************************************************************************)
(* Inputs: HTTP errors, return codes.                                      *)
(***************************************************************************)
\* substring test: sub in s
Contains(sub, s) ==
    \E i \in 1..(Len(s) - Len(sub) + 1) : Slice(s, i, i + Len(sub) - 1) = sub

HTTPErrors ==
    { [code |-> <<"4", "0", "4">>, msg |-> <<"N", "o", "t", " ", "F", "o", "u", "n", "d">>],
      [code |-> <<"4", "0", "3">>, msg |-> <<"F", "o", "r", "b", "i", "d", "d", "e", "n">>],
      [code |-> <<"5", "0", "0">>, msg |-> <<"I", "n", "t", "e", "r", "n", "a", "l", " ", "S", "e", "r", "v", "e", "r", " ", "E", "r", "r", "o", "r">>],
      [code |-> <<"5", "0", "3">>, msg |-> <<"S", "e", "r", "v", "i", "c", "e", " ", "U", "n", "a", "v", "a", "i", "l", "a", "b", "l", "e">>] }

\* str(urllib.error.HTTPError): "HTTP Error <code>: <msg>"
HTTPErrorStr(error) ==
    <<"H", "T", "T", "P", " ", "E", "r", "r", "o", "r", " ">> \o error.code \o <<":", " ">> \o error.msg

\* what urllib.request.urlretrieve may do: fetch the file, raise an
\* HTTPError, or raise a URLError that is no HTTPError (no route, no DNS)
FetchOutcomes ==
    {[kind |-> "ok", code |-> None, msg |-> None],
     [kind |-> "URLError", code |-> None, msg |-> None]}
    \cup {[kind |-> "HTTPError", code |-> e.code, msg |-> e.msg] : e \in HTTPErrors}

\* completed.returncode: success, failure, killed by a signal
ReturnCodes == {0, 1, -9}

Tools == {"git", "sh", "java", "sbt"}

\* sys.exit(code): the status the parent process sees
ExitStatus(code) == code % 256

(***************************************************************************)
(* Initial states: the environment the script is started in.               *)
(***************************************************************************)
UntarDir(dir) == Join(dir, ArchiveTop)
ArtifactIn(dir) == Join(dir, get_artifact_string(None))

BaseFs == [files |-> {}, dirs |-> {TempDir, OriginDir}]

\* what an earlier run may have left of the working directory
WorkingDirStates ==
    { [files |-> {}, dirs |-> {}],
      [files |-> {}, dirs |-> {WORKING_DIR}],
      [files |-> {}, dirs |-> {WORKING_DIR, UntarDir(WORKING_DIR)}],
      [files |-> {Join(UntarDir(WORKING_DIR), ToolFile)},
       dirs |-> {WORKING_DIR, UntarDir(WORKING_DIR)}],
      [files |-> {ArtifactIn(WORKING_DIR)}, dirs |-> {WORKING_DIR}] }

\* what a directory named by FPP_DOWNLOAD_CACHE may hold
CacheDirStates ==
    { [files |-> {}, dirs |-> {ExplicitCacheDir}],
      [files |-> {ArtifactIn(ExplicitCacheDir)}, dirs |-> {ExplicitCacheDir}],
      [files |-> {Join(UntarDir(ExplicitCacheDir), ToolFile)},
       dirs |-> {ExplicitCacheDir, UntarDir(ExplicitCacheDir)}],
      [files |-> {ArtifactIn(ExplicitCacheDir), Join(UntarDir(ExplicitCacheDir), ToolFile)},
       dirs |-> {ExplicitCacheDir, UntarDir(ExplicitCacheDir)}] }

FsUnion(f, g) == [files |-> f.files \cup g.files, dirs |-> f.dirs \cup g.dirs]

InitLocals ==
    /\ cwd = OriginDir
    /\ atexit_handlers = << >>
    /\ package_version = None
    /\ cache_directory = None
    /\ http_error = None
    /\ extracted_dir = None
    /\ install_result = None
    /\ working_dir = WORKING_DIR
    /\ listing = None
    /\ tool_index = 1
    /\ step_index = 1
    /\ returncodes = << >>
    /\ trace = << >>
    /\ stdout = << >>
    /\ exit_status = None

Init ==
    /\ pc = "import"
    /\ ppid \in ParentPIDs
    /\ path_tools \in SUBSET Tools
    /\ package_default \in {None} \cup {Some(v) : v \in PackageDefaults}
    /\ \E tv \in {None} \cup {Some(v) : v \in EnvVersions},
          dc \in {None, Some(WORKING_DIR), Some(ExplicitCacheDir)} :
          /\ environ = [FPP_TOOLS_VERSION |-> tv, FPP_DOWNLOAD_CACHE |-> dc]
          /\ \E w \in WorkingDirStates, c \in CacheDirStates, has_file \in BOOLEAN :
                /\ dc # Some(ExplicitCacheDir) => c = [files |-> {}, dirs |-> {ExplicitCacheDir}]
                /\ version_json \in VersionDicts
                /\ ~has_file => version_json = [k \in {} |-> None]
                /\ fs = FsUnion(FsUnion(BaseFs, FsUnion(w, c)),
                                [files |-> IF has_file THEN {TEMPORARY_VERSION_FILE} ELSE {},
                                 dirs |-> {}])
    /\ tools_version = None
    /\ InitLocals


(***************************************************************************)
(* Module import: lines 24-40 and 132-138.                                 *)
(***************************************************************************)
Emit(line) == stdout' = Append(stdout, line)
Enter(event) == trace' = Append(trace, event)

\* sys.exit(code), or an exception nothing catches (code 1): every enclosing
\* "with safe_chdir" restores the directory, then the exit handlers run
Exit(code) ==
    /\ exit_status' = Some(ExitStatus(code))
    /\ cwd' = OriginDir
    /\ pc' = "atexit"

\* clean_at_exit(file_or_directory)
clean_at_exit(handlers, file_or_directory) == Append(handlers, file_or_directory)

ModuleImport ==
    /\ pc = "import"
    /\ atexit_handlers' = clean_at_exit(atexit_handlers, TEMPORARY_VERSION_FILE)
    /\ pc' = "setup_version"
    /\ UNCHANGED <<environ, path_tools, ppid, package_default, version_json, fs,
                   cwd, tools_version, package_version, cache_directory,
                   http_error, extracted_dir, install_result, working_dir,
                   listing, tool_index, step_index, returncodes, trace, stdout,
                   exit_status>>

\* read_version_from_temp(file, fallback, safe): the value returned and the
\* line printed.  open() raises OSError when the file is missing; a missing
\* key, FPP_TOOLS_VERSION or setup_ppid, raises KeyError
read_version_from_temp(f, versions, parent, file, fallback, safe) ==
    IF file \notin f.files
    THEN [value |-> fallback, line |-> <<"-- WARN  --", "Failed to find">>]
    ELSE IF FPP_TOOLS_VARIABLE \notin DOMAIN versions
    THEN [value |-> fallback, line |-> <<"-- WARN  --", "did not define">>]
    ELSE IF safe
    THEN [value |-> Some(versions[FPP_TOOLS_VARIABLE]), line |-> <<"-- INFO  --", "Found version">>]
    ELSE IF "setup_ppid" \notin DOMAIN versions
    THEN [value |-> fallback, line |-> <<"-- WARN  --", "did not define">>]
    ELSE IF versions["setup_ppid"] = parent
    THEN [value |-> Some(versions[FPP_TOOLS_VARIABLE]), line |-> <<"-- INFO  --", "Found version">>]
    ELSE [value |-> fallback, line |-> <<"-- WARN  --", "non-matching parent process id">>]

\* setup_version(): the version, or None when the process exits
setup_version(env, f, versions, parent) ==
    read_version_from_temp(f, versions, parent, TEMPORARY_VERSION_FILE,
                           env.FPP_TOOLS_VERSION, FALSE)

SetupVersion ==
    /\ pc = "setup_version"
    /\ LET r == setup_version(environ, fs, version_json, ppid) IN
       /\ tools_version' = r.value
       /\ IF r.value = None
          THEN /\ stdout' = stdout \o <<r.line, <<"[ERROR]", "must set FPP_TOOLS_VERSION">>>>
               /\ Exit(1)
          ELSE /\ Emit(r.line)
               /\ pc' = "get_package_version"
               /\ UNCHANGED <<cwd, exit_status>>
    /\ UNCHANGED <<environ, path_tools, ppid, package_default, version_json, fs,
                   atexit_handlers, package_version, cache_directory,
                   http_error, extracted_dir, install_result, working_dir,
                   listing, tool_index, step_index, returncodes, trace>>

GetPackageVersion ==
    /\ pc = "get_package_version"
    /\ package_version' = Some(get_package_version(Get(tools_version)))
    /\ pc' = "clean_install_fpp"
    /\ UNCHANGED <<environ, path_tools, ppid, package_default, version_json, fs,
                   cwd, atexit_handlers, tools_version, cache_directory,
                   http_error, extracted_dir, install_result, working_dir,
                   listing, tool_index, step_index, returncodes, trace, stdout,
                   exit_status>>


(***************************************************************************)
(* clean_install_fpp, iterate_fpp_tools, install_fpp.                      *)
(***************************************************************************)
Event(call, arg) == [call |-> call, arg |-> arg]

\* clean_install_fpp: WORKING_DIR.mkdir(exist_ok=True), then the lazy loader
\* is handed to the caller
CleanInstallFpp ==
    /\ pc = "clean_install_fpp"
    /\ fs' = Mkdir(fs, WORKING_DIR)
    /\ pc' = "with_body"
    /\ UNCHANGED <<environ, path_tools, ppid, package_default, version_json,
                   cwd, atexit_handlers, tools_version, package_version,
                   cache_directory, http_error, extracted_dir, install_result,
                   working_dir, listing, tool_index, step_index, returncodes,
                   trace, stdout, exit_status>>

\* the caller never enumerates the lazy loader and the process ends
LeaveWithoutEnumerating ==
    /\ pc = "with_body"
    /\ Exit(0)
    /\ UNCHANGED <<environ, path_tools, ppid, package_default, version_json, fs,
                   atexit_handlers, tools_version, package_version,
                   cache_directory, http_error, extracted_dir, install_result,
                   working_dir, listing, tool_index, step_index, returncodes,
                   trace, stdout>>

\* iterate_fpp_tools(WORKING_DIR), up to the call of install_fpp
IterateFppTools ==
    /\ pc = "with_body"
    /\ LET untar_possibility ==
               Join(working_dir,
                    StrRemove(get_artifact_string(Get(tools_version)), FPP_COMPRESSION_EXT))
       IN IF Scandir(fs, working_dir) = {}
          THEN /\ pc' = "install_fpp"
               /\ UNCHANGED working_dir
          ELSE IF Exists(fs, untar_possibility) /\ Scandir(fs, untar_possibility) # {}
          THEN /\ working_dir' = untar_possibility
               /\ pc' = "iterdir"
          ELSE /\ pc' = "iterdir"
               /\ UNCHANGED working_dir
    /\ Enter(Event("iterate_fpp_tools", None))
    /\ UNCHANGED <<environ, path_tools, ppid, package_default, version_json, fs,
                   cwd, atexit_handlers, tools_version, package_version,
                   cache_directory, http_error, extracted_dir, install_result,
                   listing, tool_index, step_index, returncodes, stdout,
                   exit_status>>

\* "Cache directory not supplied, must download the artifacts."
MustDownloadAlways(wd, cd) == TRUE
MustDownload(wd, cd) == wd = cd

\* install_fpp(working_dir), up to the download or the cache lookup
InstallFpp ==
    /\ pc = "install_fpp"
    /\ LET cd == IF environ.FPP_DOWNLOAD_CACHE # None
                 THEN Get(environ.FPP_DOWNLOAD_CACHE)
                 ELSE working_dir
       IN /\ cache_directory' = Some(cd)
          /\ cwd' = working_dir
          /\ pc' = IF MustDownload(working_dir, cd)
                   THEN "github_release_download"
                   ELSE "prepare_cache_dir"
    /\ Enter(Event("install_fpp", None))
    /\ UNCHANGED <<environ, path_tools, ppid, package_default, version_json, fs,
                   atexit_handlers, tools_version, package_version, http_error,
                   extracted_dir, install_result, working_dir, listing,
                   tool_index, step_index, returncodes, stdout, exit_status>>

\* GITHUB_RELEASE_URL.format(...), as the components of the URL's path
ReleaseUrl(version) ==
    <<Name(GITHUB_URL), Name("releases"), Name("download"), version,
      get_artifact_string(version)>>

\* "404" not in str(error)
RetryLikelyNever(error) == FALSE
retry_likely(error) == ~Contains(<<"4", "0", "4">>, HTTPErrorStr(error))

\* github_release_download(version), wget(release_url) included
GithubReleaseDownload ==
    /\ pc = "github_release_download"
    /\ LET url == ReleaseUrl(Get(tools_version)) IN
       /\ Enter(Event("wget", url))
       /\ \E outcome \in FetchOutcomes :
             /\ http_error' = Some(outcome)
             /\ IF outcome.kind = "ok"
                THEN /\ fs' = WriteFile(fs, Join(cwd, PathName(url)))
                     /\ Emit(<<"-- INFO  --", "Fetching FPP tools">>)
                     /\ pc' = "prepare_cache_dir"
                     /\ UNCHANGED <<cwd, exit_status>>
                ELSE IF outcome.kind = "URLError"
                THEN /\ Emit(<<"-- INFO  --", "Fetching FPP tools">>)
                     /\ Exit(1)
                     /\ UNCHANGED fs
                ELSE IF retry_likely(outcome)
                THEN /\ stdout' = stdout \o << <<"-- INFO  --", "Fetching FPP tools">>,
                                               <<"-- WARN  --", "Failed to retrieve">>,
                                               <<"-- INFO  --", "Retrying will likely resolve the problem.">> >>
                     /\ Exit(-1)
                     /\ UNCHANGED fs
                ELSE /\ stdout' = stdout \o << <<"-- INFO  --", "Fetching FPP tools">>,
                                               <<"-- WARN  --", "Failed to retrieve">> >>
                     /\ pc' = "prepare_cache_dir"
                     /\ UNCHANGED <<fs, cwd, exit_status>>
    /\ UNCHANGED <<environ, path_tools, ppid, package_default, version_json,
                   atexit_handlers, tools_version, package_version,
                   cache_directory, extracted_dir, install_result, working_dir,
                   listing, tool_index, step_index, returncodes>>

\* prepare_cache_dir with the existence test inverted
prepare_cache_dir_inverted(f, cd, version) ==
    LET artifact == Join(cd, get_artifact_string(version)) IN
    IF Exists(f, artifact) THEN None
    ELSE Some(PathRemove(artifact, FPP_COMPRESSION_EXT))

\* prepare_cache_dir(cache_directory, version): the path returned, None on a miss
prepare_cache_dir(f, cd, version) ==
    LET artifact == Join(cd, get_artifact_string(version)) IN
    IF ~Exists(f, artifact) THEN None
    ELSE Some(PathRemove(artifact, FPP_COMPRESSION_EXT))

\* prepare_cache_dir and the rest of install_fpp: on a hit the archive is
\* extracted into "." and install_fpp returns; on a miss install_fpp_via_git
\* is called
PrepareCacheDir ==
    /\ pc = "prepare_cache_dir"
    /\ LET tools_install_directory ==
               prepare_cache_dir(fs, Get(cache_directory), Get(tools_version))
       IN IF tools_install_directory # None
          THEN /\ fs' = Extractall(fs, cwd)
               /\ extracted_dir' = Some(Join(cwd, ArchiveTop))
               /\ install_result' = tools_install_directory
               /\ working_dir' = Get(tools_install_directory)
               /\ cwd' = OriginDir
               /\ pc' = "iterdir"
               /\ trace' = Append(trace, Event("prepare_cache_dir", None))
               /\ UNCHANGED stdout
          ELSE /\ Emit(<<"-- WARN  --", "Cached/released tools not found. Falling back to git clone.">>)
               /\ trace' = trace \o <<Event("prepare_cache_dir", None),
                                     Event("install_fpp_via_git", None)>>
               /\ pc' = "install_fpp_via_git"
               /\ UNCHANGED <<fs, extracted_dir, install_result, working_dir, cwd>>
    /\ UNCHANGED <<environ, path_tools, ppid, package_default, version_json,
                   atexit_handlers, tools_version, package_version,
                   cache_directory, http_error, listing, tool_index, step_index,
                   returncodes, exit_status>>


(***************************************************************************)
(* install_fpp_via_git.                                                    *)
(***************************************************************************)
\* tools = ["git", "sh", "java", "sbt"]
ToolsListWithoutSbt == <<"git", "sh", "java">>
ToolsList == <<"git", "sh", "java", "sbt">>

\* the three steps: the command run and its arguments
Steps(build_directory, installation_directory, version) ==
    << [cmd |-> "git clone", args |-> <<Name(GITHUB_URL), build_directory>>],
       [cmd |-> "git checkout", args |-> <<version>>],
       [cmd |-> "compiler/install", args |-> <<installation_directory>>] >>

\* completed.returncode != 0
StepFailedNever(returncode) == FALSE
StepFailed(returncode) == returncode # 0

\* one turn of "for tool in tools"; after the last tool the temporary build
\* directory is created
CheckTool ==
    /\ pc = "install_fpp_via_git"
    /\ LET tool == ToolsList[tool_index] IN
       /\ trace' = Append(trace, Event("shutil.which", tool))
       /\ IF tool \notin path_tools
          THEN /\ Emit(<<"-- ERROR --", tool, "must exist on PATH">>)
               /\ Exit(-1)
               /\ UNCHANGED <<tool_index, fs>>
          ELSE /\ tool_index' = tool_index + 1
               /\ IF tool_index = Len(ToolsList)
                  THEN /\ fs' = Mkdir(fs, BuildDir)
                       /\ pc' = "run_steps"
                  ELSE UNCHANGED <<fs, pc>>
               /\ UNCHANGED <<stdout, cwd, exit_status>>
    /\ UNCHANGED <<environ, path_tools, ppid, package_default, version_json,
                   atexit_handlers, tools_version, package_version,
                   cache_directory, http_error, extracted_dir, install_result,
                   working_dir, listing, step_index, returncodes>>

\* what a step that succeeds leaves on disk
StepEffect(f, cmd, installation_directory) ==
    IF cmd = "git clone"
    THEN [files |-> f.files \cup {Join(Join(BuildDir, Name("compiler")), Name("install"))},
          dirs |-> f.dirs \cup {Join(BuildDir, Name("compiler"))}]
    ELSE IF cmd = "compiler/install"
    THEN [files |-> f.files \cup {Join(installation_directory, ToolFile)},
          dirs |-> f.dirs \cup {installation_directory}]
    ELSE f

\* one turn of "for step in steps": subprocess.run and the check of its
\* return code; leaving the "with" removes the build directory
RunStep ==
    /\ pc = "run_steps"
    /\ LET installation_directory == Get(cache_directory)
           steps == Steps(BuildDir, installation_directory, Get(tools_version))
           step == steps[step_index]
       IN /\ trace' = Append(trace, Event("subprocess.run", step.cmd))
          /\ \E returncode \in ReturnCodes :
                /\ returncodes' = Append(returncodes, returncode)
                /\ IF StepFailed(returncode)
                   THEN /\ stdout' = stdout \o << <<"-- INFO  --", "Running", step.cmd>>,
                                                  <<"-- ERROR --", "Failed to run", step.cmd>> >>
                        /\ fs' = rmtree(fs, BuildDir)
                        /\ Exit(-1)
                        /\ UNCHANGED <<step_index, install_result, working_dir>>
                   ELSE /\ Emit(<<"-- INFO  --", "Running", step.cmd>>)
                        /\ step_index' = step_index + 1
                        /\ IF step_index = Len(steps)
                           THEN /\ fs' = rmtree(StepEffect(fs, step.cmd, installation_directory), BuildDir)
                                /\ install_result' = Some(installation_directory)
                                /\ working_dir' = installation_directory
                                /\ cwd' = OriginDir
                                /\ pc' = "iterdir"
                           ELSE /\ fs' = StepEffect(fs, step.cmd, installation_directory)
                                /\ UNCHANGED <<install_result, working_dir, cwd, pc>>
                        /\ UNCHANGED exit_status
    /\ UNCHANGED <<environ, path_tools, ppid, package_default, version_json,
                   atexit_handlers, tools_version, package_version,
                   cache_directory, http_error, extracted_dir, listing,
                   tool_index>>

(***************************************************************************)
(* The listing, and the end of the process.                                *)
(***************************************************************************)
\* working_dir.iterdir(), consumed by the caller; a directory that does not
\* exist raises FileNotFoundError, which nothing catches
Iterdir ==
    /\ pc = "iterdir"
    /\ IF working_dir \in fs.dirs
       THEN /\ listing' = Some(Scandir(fs, working_dir))
            /\ Exit(0)
            /\ UNCHANGED trace
       ELSE /\ Enter(Event("raise", "FileNotFoundError"))
            /\ Exit(1)
            /\ UNCHANGED listing
    /\ UNCHANGED <<environ, path_tools, ppid, package_default, version_json, fs,
                   atexit_handlers, tools_version, package_version,
                   cache_directory, http_error, extracted_dir, install_result,
                   working_dir, tool_index, step_index, returncodes, stdout>>

\* the atexit handlers, last registered first: clean_version_file(path)
RECURSIVE RunHandlers(_, _)
RunHandlers(f, handlers) ==
    IF handlers = << >> THEN f
    ELSE RunHandlers(rmtree(f, handlers[Len(handlers)]),
                     SubSeq(handlers, 1, Len(handlers) - 1))

AtExit ==
    /\ pc = "atexit"
    /\ fs' = RunHandlers(fs, atexit_handlers)
    /\ stdout' = stdout \o [i \in 1..Len(atexit_handlers) |-> <<"-- INFO  --", "Removing">>]
    /\ pc' = "terminated"
    /\ UNCHANGED <<environ, path_tools, ppid, package_default, version_json,
                   cwd, atexit_handlers, tools_version, package_version,
                   cache_directory, http_error, extracted_dir, install_result,
                   working_dir, listing, tool_index, step_index, returncodes,
                   trace, exit_status>>

Next ==
    \/ ModuleImport
    \/ SetupVersion
    \/ GetPackageVersion
    \/ CleanInstallFpp
    \/ LeaveWithoutEnumerating
    \/ IterateFppTools
    \/ InstallFpp
    \/ GithubReleaseDownload
    \/ PrepareCacheDir
    \/ CheckTool
    \/ RunStep
    \/ Iterdir
    \/ AtExit

Spec == Init /\ [][Next]_vars

(***************************************************************************)
(* get_package_version on its own, over every generated token.             *)
(***************************************************************************)
InitPackageVersion ==
    /\ pc = "get_package_version"
    /\ ppid \in ParentPIDs
    /\ path_tools = Tools
    /\ package_default = None
    /\ \E t \in Tokens :
          /\ environ = [FPP_TOOLS_VERSION |-> Some(t), FPP_DOWNLOAD_CACHE |-> None]
          /\ tools_version = Some(t)
    /\ version_json = [k \in {} |-> None]
    /\ fs = BaseFs
    /\ InitLocals

SpecPackageVersion == InitPackageVersion /\ [][GetPackageVersion]_vars


(***************************************************************************)
(* Properties.                                                             *)
(***************************************************************************)
Calls == {trace[i].call : i \in DOMAIN trace}
Called(call) == call \in Calls
SetupDone == pc \notin {"import", "setup_version"}
RecordExists == TEMPORARY_VERSION_FILE \in fs.files
RecordDefinesVersion == RecordExists /\ FPP_TOOLS_VARIABLE \in DOMAIN version_json
RecordHasPpid == "setup_ppid" \in DOMAIN version_json
RecordMatches ==
    RecordDefinesVersion /\ RecordHasPpid /\ version_json["setup_ppid"] = ppid
RecordMismatches ==
    RecordDefinesVersion /\ RecordHasPpid /\ version_json["setup_ppid"] # ppid
NonZeroExit == exit_status # None /\ Get(exit_status) # 0

\* C1: version resolution follows a fixed precedence: a version file whose
\* setup_ppid is the parent's wins, also over the environment variable; with
\* a non-matching setup_ppid the environment variable's value is the result;
\* with neither a record nor the variable the packaged default is the
\* result; the process exits with status 1 only when none of the three
\* sources yields a version.
C1_VersionPrecedence ==
    SetupDone =>
        /\ RecordMatches => tools_version = Some(version_json[FPP_TOOLS_VARIABLE])
        /\ (RecordMismatches /\ environ.FPP_TOOLS_VERSION # None)
              => tools_version = environ.FPP_TOOLS_VERSION
        /\ (~RecordDefinesVersion /\ environ.FPP_TOOLS_VERSION = None
               /\ package_default # None)
              => tools_version = package_default
        /\ tools_version = None
              => /\ exit_status = Some(1)
                 /\ ~RecordMatches
                 /\ environ.FPP_TOOLS_VERSION = None
                 /\ package_default = None

ExplicitCacheMiss ==
    /\ Called("install_fpp")
    /\ environ.FPP_DOWNLOAD_CACHE = Some(ExplicitCacheDir)
    /\ ArtifactIn(ExplicitCacheDir) \notin fs.files

\* C3: when FPP_DOWNLOAD_CACHE names a directory other than the working
\* directory and the artifact is not in it, no download is ever attempted
\* and the step after the cache miss is install_fpp_via_git.
C3_ExplicitCacheMissBuildsFromSource ==
    ExplicitCacheMiss =>
        /\ ~Called("wget")
        /\ http_error = None
        /\ \A i \in DOMAIN trace :
              trace[i].call = "prepare_cache_dir"
                 => /\ i < Len(trace)
                    /\ trace[i + 1].call = "install_fpp_via_git"
        /\ pc \notin {"install_fpp", "prepare_cache_dir"} => Called("install_fpp_via_git")

C3_Witness ==
    ExplicitCacheMiss /\ Called("install_fpp_via_git") /\ ~Called("wget")

\* the cache directory of this run held the artifact when install_fpp
\* looked: the file is there and no download of this run wrote it
CacheHeldArtifact ==
    /\ cache_directory # None
    /\ ArtifactIn(Get(cache_directory)) \in fs.files
    /\ ~(http_error # None /\ Get(http_error).kind = "ok")

\* C4: when the cache directory contains the artifact, install_fpp returns
\* its result without any network fetch and without running any subprocess.
C4_CacheHitNeedsNothingElse ==
    CacheHeldArtifact =>
        /\ ~Called("wget")
        /\ ~Called("subprocess.run")
        /\ ~Called("install_fpp_via_git")
        /\ pc # "prepare_cache_dir" => install_result # None /\ Called("prepare_cache_dir")
        /\ pc \in {"prepare_cache_dir", "iterdir"} => exit_status = None

C4_Witness ==
    CacheHeldArtifact /\ pc = "iterdir" /\ install_result # None /\ trace # << >>

\* C5: once the exit handlers have run, the working directory and the
\* version file are gone, however the run ended.
C5_CleanAfterExit ==
    pc = "terminated" =>
        /\ ~Exists(fs, WORKING_DIR)
        /\ ~Exists(fs, TEMPORARY_VERSION_FILE)

MissingTools == Tools \ path_tools

\* C6: in install_fpp_via_git, when one of git, sh, java, sbt is not on the
\* search path, the process ends with a non-zero status after an error line
\* naming a missing tool, and no build step is ever started.
C6_MissingToolFailsFast ==
    (Called("install_fpp_via_git") /\ MissingTools # {}) =>
        /\ ~Called("subprocess.run")
        /\ pc # "run_steps"
        /\ pc # "install_fpp_via_git"
              => /\ NonZeroExit
                 /\ install_result = None
                 /\ \E i \in DOMAIN stdout :
                       /\ Len(stdout[i]) = 3
                       /\ stdout[i][1] = "-- ERROR --"
                       /\ stdout[i][3] = "must exist on PATH"
                       /\ stdout[i][2] \in MissingTools

C6_Witness ==
    /\ Called("install_fpp_via_git")
    /\ MissingTools = {"sbt"}
    /\ exit_status = Some(255)

\* C7: on a hit prepare_cache_dir returns the directory the extraction
\* produced, for every cache directory, so the directory listed after a
\* cache hit is the extracted tool directory.
C7_ReturnsExtractedDir ==
    extracted_dir # None =>
        /\ install_result = extracted_dir
        /\ pc = "iterdir" => working_dir = Get(extracted_dir)

\* the text a composite token is claimed to become, and the text with the
\* leading v of the tag kept
ClaimedText(p) ==
    p.x \o <<".">> \o p.y \o <<".">> \o p.z
        \o <<".", "d", "e", "v">> \o p.n \o <<"+", "g">>
        \o SubSeq(p.hash, 1, ShortHashLen)
KeptPrefixText(p) == <<"v">> \o ClaimedText(p)

\* a composite token has one reading as parts, so a token and its text are
\* looked up as a pair
CompositeTokens == {Composite(p) : p \in CompositeParts}
ClaimedPairs == {<<Composite(p), ClaimedText(p)>> : p \in CompositeParts}
KeptPrefixPairs == {<<Composite(p), KeptPrefixText(p)>> : p \in CompositeParts}
CompositeVersioned ==
    /\ pc # "get_package_version"
    /\ tools_version # None
    /\ package_version # None
    /\ Get(tools_version) \in CompositeTokens

\* C8, as claimed: for every token vX.Y.Z-N-gHASH get_package_version
\* returns X.Y.Z.devN+g<first 8 characters of HASH>.
C8_CompositeWithoutPrefix ==
    CompositeVersioned
    => <<Get(tools_version), Get(package_version)>> \in ClaimedPairs

\* C8, amended: for every token vX.Y.Z-N-gHASH get_package_version returns
\* vX.Y.Z.devN+g<first 8 characters of HASH>, the leading v of the tag kept.
C8_CompositeKeepsPrefix ==
    CompositeVersioned
    => <<Get(tools_version), Get(package_version)>> \in KeptPrefixPairs

C8_Witness ==
    /\ CompositeVersioned
    /\ Get(tools_version) \in
          {Composite(p) : p \in {q \in CompositeParts :
                                    Len(q.hash) = MaxHashLen /\ Len(q.x) > 1}}

\* C9: a version file that defines the tool version and has no setup_ppid
\* is taken as correct: read_version_from_temp returns its version.
C9_MissingPpidAccepted ==
    (SetupDone /\ RecordDefinesVersion /\ ~RecordHasPpid)
    => tools_version = Some(version_json[FPP_TOOLS_VARIABLE])

StepsRun == SelectSeq(trace, LAMBDA e : e.call = "subprocess.run")
StepOrder == <<"git clone", "git checkout", "compiler/install">>

\* C10: the build steps run in the order git clone, git checkout,
\* compiler/install; a step starts only after every earlier one returned 0;
\* the first non-zero return code ends the process with a non-zero status
\* and no later step; the installation directory is returned only after
\* all three returned 0.
C10_StepsInOrder ==
    /\ Len(StepsRun) <= Len(StepOrder)
    /\ Len(returncodes) = Len(StepsRun)
    /\ \A i \in DOMAIN StepsRun : StepsRun[i].arg = StepOrder[i]
    /\ \A i \in DOMAIN returncodes :
          IF returncodes[i] = 0
          THEN TRUE
          ELSE /\ i = Len(returncodes)
               /\ NonZeroExit
               /\ install_result = None
    /\ (Called("install_fpp_via_git") /\ install_result # None)
          => returncodes = <<0, 0, 0>> /\ install_result = cache_directory

C10_Witness ==
    /\ Called("install_fpp_via_git")
    /\ install_result # None
    /\ returncodes = <<0, 0, 0>>

====
